---- MODULE Spec2Model ----
(***************************************************************************)
(* Baradvisor: the Bars Data Controller (hooks/use-bars.ts) driven by the  *)
(* Index page (selected location, radius), and the Favorites Store kept by *)
(* the Index page in localStorage under 'bar-favorites'.                   *)
(***************************************************************************)
EXTENDS Integers, Sequences, FiniteSets, TLC

VARIABLES
    apiKey,            \* import.meta.env.VITE_YELP_API_KEY, fixed for a session
    selectedLocation,  \* Index state: Null or [coordinates, name]
    radius,            \* Index state, the hook's radius input
    nextRef,           \* identity of the next coordinate object literal (one per search)
    revPending,        \* reverse-geocoding lookups in flight (captured coordinates)
    bars,              \* useBars state
    loading,           \* useBars state
    error,             \* useBars state
    usingMockData,     \* useBars state
    calls,             \* log of the calls fetchBarsFromYelp(coordinates, radius)
    inflight,          \* indices into calls whose promise is pending
    barsFrom,          \* index of the call whose response is in bars, 0 if none
    lastEvent,         \* the handler that ran last
    favorites,         \* Index state: Set<string>, in insertion order
    storage,           \* localStorage['bar-favorites'], parsed; Null if absent
    updates,           \* queued setFavorites updates of the Index component
    mounted,           \* the Index component is mounted (a session is running)
    stored0,           \* content of storage when the session started
    toggled,           \* toggleFavorite was called in this session
    reads,             \* number of localStorage.getItem calls in this session
    pair,              \* the last toggles of one id in a row, and the store before them
    geoSupported,      \* navigator.geolocation exists in this browser
    startInstance,     \* which mount of StartPage is the current one
    searchQuery,       \* StartPage state
    isLoadingLocation, \* StartPage state
    isSearching,       \* StartPage state
    startError,        \* StartPage state 'error'
    searchResults,     \* StartPage state: the candidates, as positions
    geoPending,        \* getCurrentPosition requests pending, by the instance that made them
    searchLog,         \* log of the queries sent to the geocoding service
    searchPending,     \* indices into searchLog whose fetch is pending
    timers,            \* pending setTimeout callbacks of the popular-city buttons
    startEvent,        \* the StartPage handler that ran last
    geoCoordinates,    \* useGeolocation state 'coordinates'
    geoLoading,        \* useGeolocation state 'loading'
    geoError,          \* useGeolocation state 'error'
    geoRequest,        \* "idle" before the effect ran, then "pending", then "settled"
    geoOutcome,        \* what the device answered: Null, a position or an error code
    fsqKey,            \* import.meta.env.VITE_FOURSQUARE_API_KEY, fixed for a session
    requests,          \* log of the HTTP requests the adapters sent
    pending,           \* the adapter call awaiting its response, or Null
    lastCall,          \* the last adapter call that finished, its response and its result
    business,          \* an upstream place object: categories, price, image_url
    bar,               \* the Place Record converted from it, or Null
    selectedType,      \* Index state: Null or a BarType
    showFavoritesOnly, \* Index state
    minRating,         \* Index state
    openOnly,          \* Index state
    sortBy,            \* Index state
    engine,            \* the JavaScript engine that runs Array.prototype.sort
    filteredBars,      \* the value of filteredBars in the last render, or Null
    renders,           \* number of renders of Index so far
    bars0,             \* the controller's record list before the first render
    prevFiltered       \* filteredBars of the render before the last

barsVars == <<apiKey, selectedLocation, radius, nextRef, revPending, bars, loading,
              error, usingMockData, calls, inflight, barsFrom, lastEvent>>
favVars == <<favorites, storage, updates, mounted, stored0, toggled, reads, pair>>
startVars == <<geoSupported, startInstance, searchQuery, isLoadingLocation, isSearching,
               startError, searchResults, geoPending, searchLog, searchPending, timers,
               startEvent>>
geoVars == <<geoCoordinates, geoLoading, geoError, geoRequest, geoOutcome>>
adapterVars == <<fsqKey, requests, pending, lastCall>>
convertVars == <<business, bar>>
pipelineVars == <<selectedType, showFavoritesOnly, minRating, openOnly, sortBy, engine,
                  filteredBars, renders, bars0, prevFiltered>>
vars == <<barsVars, favVars, startVars, geoVars, adapterVars, convertVars, pipelineVars>>

(* the variables a specification of one component leaves alone *)
exceptBars == <<favVars, startVars, geoVars, adapterVars, convertVars, pipelineVars>>
exceptFav == <<barsVars, startVars, geoVars, adapterVars, convertVars, pipelineVars>>
exceptStart == <<favVars, geoVars, adapterVars, convertVars, pipelineVars>>
exceptGeo == <<barsVars, favVars, startInstance, searchQuery, isLoadingLocation, isSearching,
               startError, searchResults, geoPending, searchLog, searchPending, timers, startEvent,
               adapterVars, convertVars, pipelineVars>>
exceptAdapter == <<barsVars, favVars, startVars, geoVars, convertVars, pipelineVars>>
exceptConvert == <<barsVars, favVars, startVars, geoVars, adapterVars, pipelineVars>>

(* A nullable value is Null or Some(x) *)
Null == << >>
Some(x) == <<x>>
The(v) == v[1]

----------------------------------------------------------------------------
(* Bounds of the model *)
MaxCalls == 2
MaxUpdates == 2
MaxSearches == 2
MaxRequests == 2
MaxLabels == 2
MaxBars == 3
MaxFilterBars == 2
MaxRenders == 2
MaxTimers == 1

Positions == {"A", "B"}
Radii == {500, 1000}
Statuses == {"401", "500"}
PlaceholderKey == "your_api_key_here"
ApiKeys == {"", PlaceholderKey, "key"}
FavIds == {"a", "b", "c"}

Queries == {"", " ", "Oslo"}
PopularCities == {"Bergen", "Oslo"}
GeoErrorCodes == {1, 2, 3}
SearchFailures == {"network", "status", "body"}
Candidates == {<<"A">>, <<"B", "A">>}

RadiusInputs == {-1, 5000, 40001}
LimitInputs == {0, 50, 51}
BarIds == {"y1"}

(* category labels (Yelp alias, Foursquare short_name), price strings and *)
(* image URLs an upstream place object may carry                          *)
Labels == {"cocktailbars", "pubs", "sportsbars", "Wine_Bars", "nightlife", "beergardens",
           "brewpubs", "lounges", "Night Club"}
Prices == {"", "$", "$$", "$$$", "$$$$", "$$$$$"}
ImageUrls == {"", " ", "https://s3-media.yelp/bphoto/o.jpg"}

(* the fields of a Place Record the filter and the sort read *)
Ratings == {4, 5}
Distances == {Null, Some(1), Some(2)}
OpenFlags == {Null, Some(TRUE), Some(FALSE)}
FilterTypes == {"Pub", "Cocktail"}
SortOptions == {"default", "distance", "rating", "reviews", "price-low", "price-high"}
Engines == {"v8", "spidermonkey"}

useApi == TRUE
DefaultRadius == 500

(* the coordinate (60.3913, 5.3221) of config.bergenCenter *)
FallbackPosition == "Bergen"

(* Device positions in units of 0.0001 degree, around and including the *)
(* default coordinate                                                   *)
BERGEN_COORDINATES == [latitude |-> 603913, longitude |-> 53221]
Latitudes == {603913 + 100 * i : i \in 0..9}
Longitudes == {53221 + 100 * i : i \in 0..9}
DevicePositions == [latitude : Latitudes, longitude : Longitudes]

----------------------------------------------------------------------------
(* data/bars.ts: the ids of the built-in dataset, in order *)
mockBars == <<"1", "2", "3", "4", "5", "6", "7", "8", "9", "10">>

(* Results the upstream search may return, converted to Place Records *)
Responses == {<< >>, <<"y1">>, <<"y2", "y1">>}

(* What fetchBarsFromYelp may settle with, given the credential *)
ConfigError ==
    [kind |-> "config", isError |-> TRUE,
     message |-> <<"Yelp API key is not configured. Please add VITE_YELP_API_KEY to your .env file.">>]
HttpError(s) ==
    [kind |-> s, isError |-> TRUE, message |-> <<"Yelp API error: ", s, " - ", "body">>]
NetworkError ==
    [kind |-> "network", isError |-> TRUE, message |-> <<"Failed to fetch">>]

KeyConfigured(k) == k # "" /\ k # PlaceholderKey

Failures(k) ==
    IF ~KeyConfigured(k) THEN {ConfigError}
    ELSE {HttpError(s) : s \in Statuses} \cup {NetworkError}

Successes(k) == IF KeyConfigured(k) THEN Responses ELSE {}

(* err instanceof Error ? err.message : 'Failed to fetch bars' *)
errorMessage(err) == IF err.isError THEN err.message ELSE <<"Failed to fetch bars">>

----------------------------------------------------------------------------
(* The coordinate input of the hook: selectedLocation?.coordinates || null *)
CoordinatesOf(loc) == IF loc = Null THEN Null ELSE Some(The(loc).coordinates)

coordinates == CoordinatesOf(selectedLocation)

(* returned by the hook as userLocation *)
userLocation == coordinates

(* What the last handler was, the call it started or settled, and for a *)
(* settled call its outcome and the number of results                    *)
Event(op, call, outcome, results) ==
    [op |-> op, call |-> call, outcome |-> outcome, results |-> results]

(* a dependency list that names the coordinates only *)
DepsChanged_CoordinatesOnly(c1, r1, c2, r2) == c1 # c2

(* The dependency list [coordinates, radius] is compared with Object.is *)
DepsChanged(c1, r1, c2, r2) == c1 # c2 \/ r1 # r2

(* try { setLoading(true); setError(null); ... await fetchBarsFromYelp(c, r) *)
StartFetch(c, r, via, op) ==
    /\ Len(calls) < MaxCalls
    /\ loading' = TRUE
    /\ error' = Null
    /\ calls' = Append(calls, [coordinates |-> c, radius |-> r, via |-> via,
                               concurrent |-> inflight # {}])
    /\ inflight' = inflight \cup {Len(calls) + 1}
    /\ lastEvent' = Event(op, Len(calls) + 1, "", 0)
    /\ UNCHANGED <<bars, usingMockData, barsFrom>>

(* fetchBars with the API disabled: mock data immediately *)
UseMock(op) ==
    /\ bars' = mockBars
    /\ usingMockData' = TRUE
    /\ loading' = FALSE
    /\ barsFrom' = 0
    /\ lastEvent' = Event(op, 0, "", 0)
    /\ UNCHANGED <<error, calls, inflight>>

(* A handler that leaves the hook's state alone *)
NoFetch(op) ==
    /\ lastEvent' = Event(op, 0, "", 0)
    /\ UNCHANGED <<bars, loading, error, usingMockData, calls, inflight, barsFrom>>

(* The effect of useBars after a commit that changed the props to (c, r) *)
Effect(c, r, op) ==
    IF DepsChanged(coordinates, radius, c, r) /\ c # Null
    THEN IF useApi THEN StartFetch(c, r, "effect", op) ELSE UseMock(op)
    ELSE NoFetch(op)

----------------------------------------------------------------------------
(* Index page *)

LocationNames == {"Your Location", "display_name"}
CityNames == {"city", "(lat, lon)"}

NewCoordinates(p) == [ref |-> nextRef, pos |-> p]

(* Index.handleLocationSelected, called by the start page *)
handleLocationSelected(p, name) ==
    /\ selectedLocation' = Some([coordinates |-> NewCoordinates(p), name |-> name])
    /\ nextRef' = nextRef + 1
    /\ Effect(Some(NewCoordinates(p)), radius, "select")
    /\ UNCHANGED <<apiKey, radius, revPending>>

(* The start page, rendered while no location is selected, reports a location *)
StartPageSelects(p, name) ==
    /\ selectedLocation = Null
    /\ handleLocationSelected(p, name)

(* MapView dragend -> Index.handleLocationChange, up to the await *)
handleLocationChange(p) ==
    /\ selectedLocation # Null
    /\ ~loading
    /\ error = Null
    /\ selectedLocation' = Some([coordinates |-> NewCoordinates(p), name |-> "(lat, lon)"])
    /\ nextRef' = nextRef + 1
    /\ revPending' = revPending \cup {NewCoordinates(p)}
    /\ Effect(Some(NewCoordinates(p)), radius, "drag")
    /\ UNCHANGED <<apiKey, radius>>

(* Index.handleLocationChange after the reverse-geocoding lookup resolved *)
ReverseGeocoded(c, cityName) ==
    /\ c \in revPending
    /\ revPending' = revPending \ {c}
    /\ selectedLocation' = Some([coordinates |-> c, name |-> cityName])
    /\ Effect(Some(c), radius, "reverse")
    /\ UNCHANGED <<apiKey, radius, nextRef>>

(* Index.handleLocationChange when the lookup rejected: a toast only *)
ReverseFailed(c) ==
    /\ c \in revPending
    /\ revPending' = revPending \ {c}
    /\ NoFetch("reverseFailed")
    /\ UNCHANGED <<apiKey, radius, nextRef, selectedLocation>>

(* Index.handleBackToStart *)
handleBackToStart ==
    /\ selectedLocation # Null
    /\ selectedLocation' = Null
    /\ Effect(Null, radius, "back")
    /\ UNCHANGED <<apiKey, radius, nextRef, revPending>>

(* the radius state of Index changes *)
setRadius(r) ==
    /\ r # radius
    /\ radius' = r
    /\ Effect(coordinates, r, "radius")
    /\ UNCHANGED <<apiKey, selectedLocation, nextRef, revPending>>

----------------------------------------------------------------------------
(* What Index renders *)

(* if (!selectedLocation) return <StartPage ... /> *)
startPageShown == selectedLocation = Null

(* {error && <Alert> ... {error} <Button onClick={() => refetch()}>Try Again *)
errorAlertShown == ~startPageShown /\ error # Null
retryShown == errorAlertShown

(* {loading && <div> ... Loading bars from Yelp *)
loadingShown == ~startPageShown /\ loading

(* {!loading && !error && <> the map or the list of cards *)
contentShown == ~startPageShown /\ ~loading /\ error = Null

(* the records handed to the map or rendered as cards, before filtering *)
barsShown == IF contentShown THEN bars ELSE << >>

----------------------------------------------------------------------------
(* JavaScript strings *)

RECURSIVE TrimStart(_)
TrimStart(s) ==
    IF Len(s) > 0 /\ SubSeq(s, 1, 1) = " " THEN TrimStart(SubSeq(s, 2, Len(s))) ELSE s

RECURSIVE TrimEnd(_)
TrimEnd(s) ==
    IF Len(s) > 0 /\ SubSeq(s, Len(s), Len(s)) = " "
    THEN TrimEnd(SubSeq(s, 1, Len(s) - 1))
    ELSE s

(* String.prototype.trim *)
Trim(s) == TrimEnd(TrimStart(s))

(* String.prototype.includes *)
Includes(s, t) ==
    \E i \in 1..(Len(s) - Len(t) + 1) : SubSeq(s, i, i + Len(t) - 1) = t

Digit(d) == SubSeq("0123456789", d + 1, d + 1)

RECURSIVE NatToString(_)
NatToString(n) == IF n < 10 THEN Digit(n) ELSE NatToString(n \div 10) \o Digit(n % 10)

(* Number.prototype.toString of an integer *)
NumberToString(n) == IF n < 0 THEN "-" \o NatToString(0 - n) ELSE NatToString(n)

LowerChar(c) ==
    IF \E i \in 1..26 : SubSeq("ABCDEFGHIJKLMNOPQRSTUVWXYZ", i, i) = c
    THEN LET i == CHOOSE i \in 1..26 : SubSeq("ABCDEFGHIJKLMNOPQRSTUVWXYZ", i, i) = c
         IN  SubSeq("abcdefghijklmnopqrstuvwxyz", i, i)
    ELSE c

(* String.prototype.toLowerCase *)
RECURSIVE toLowerCase(_)
toLowerCase(s) ==
    IF Len(s) = 0 THEN s
    ELSE LowerChar(SubSeq(s, 1, 1)) \o toLowerCase(SubSeq(s, 2, Len(s)))

(* Math.min *)
Min(a, b) == IF a < b THEN a ELSE b

----------------------------------------------------------------------------
(* StartPage: shown by Index while no location is selected.  A selection     *)
(* unmounts it; its pending callbacks still run, and their state updates are *)
(* then dropped by React.                                                    *)

StartEvent(op, arg) == [op |-> op, arg |-> arg]

(* the state of a freshly mounted StartPage *)
StartPageFresh ==
    /\ searchQuery' = ""
    /\ isLoadingLocation' = FALSE
    /\ isSearching' = FALSE
    /\ startError' = Null
    /\ searchResults' = << >>

(* onLocationSelected(...) makes Index render the bars page instead *)
StartPageUnmounts ==
    /\ StartPageFresh
    /\ startInstance' = IF startPageShown THEN startInstance + 1 ELSE startInstance
    /\ searchPending' = {}
    /\ UNCHANGED timers

(* the message chosen by the error callback of getCurrentPosition *)
StartGeoMessage(code) ==
    CASE code = 1 -> "Location permission denied. Please search for a city instead."
      [] code = 2 -> "Location information unavailable. Please try searching for a city."
      [] code = 3 -> "Location request timed out. Please try again or search for a city."
      [] OTHER -> "Failed to get your location"

(* StartPage.handleUseMyLocation, up to the call of getCurrentPosition *)
handleUseMyLocation ==
    /\ startPageShown
    /\ ~isLoadingLocation
    /\ IF ~geoSupported
       THEN /\ startError' = Some("Geolocation is not supported by your browser")
            /\ isLoadingLocation' = FALSE
            /\ startEvent' = StartEvent("geoUnsupported", 0)
            /\ UNCHANGED geoPending
       ELSE /\ startError' = Null
            /\ isLoadingLocation' = TRUE
            /\ geoPending' = geoPending \cup {startInstance}
            /\ startEvent' = StartEvent("useMyLocation", 0)
    /\ UNCHANGED <<geoSupported, startInstance, searchQuery, isSearching, searchResults,
                   searchLog, searchPending, timers>>
    /\ UNCHANGED barsVars

(* the success callback of getCurrentPosition, for the request of instance i *)
GeoSucceeded(i, p) ==
    /\ i \in geoPending
    /\ geoPending' = geoPending \ {i}
    /\ handleLocationSelected(p, "Your Location")
    /\ StartPageUnmounts
    /\ startEvent' = StartEvent("geoSuccess", 0)
    /\ UNCHANGED <<geoSupported, searchLog>>

(* an error callback that goes on with the default coordinate *)
GeoFailed_Fallback(i, code) ==
    /\ i \in geoPending
    /\ geoPending' = geoPending \ {i}
    /\ handleLocationSelected(FallbackPosition, "Your Location")
    /\ StartPageUnmounts
    /\ startEvent' = StartEvent("geoError", code)
    /\ UNCHANGED <<geoSupported, searchLog>>

(* the error callback of getCurrentPosition, for the request of instance i *)
GeoFailed(i, code) ==
    /\ i \in geoPending
    /\ geoPending' = geoPending \ {i}
    /\ IF i = startInstance
       THEN /\ startError' = Some(StartGeoMessage(code))
            /\ isLoadingLocation' = FALSE
            /\ startEvent' = StartEvent("geoError", code)
       ELSE /\ startEvent' = StartEvent("geoErrorUnmounted", code)
            /\ UNCHANGED <<startError, isLoadingLocation>>
    /\ UNCHANGED <<geoSupported, startInstance, searchQuery, isSearching, searchResults,
                   searchLog, searchPending, timers>>
    /\ UNCHANGED barsVars

(* onChange of the search input *)
setSearchQuery(q) ==
    /\ startPageShown
    /\ q # searchQuery
    /\ searchQuery' = q
    /\ startEvent' = StartEvent("query", 0)
    /\ UNCHANGED <<geoSupported, startInstance, isLoadingLocation, isSearching, startError,
                   searchResults, geoPending, searchLog, searchPending, timers>>
    /\ UNCHANGED barsVars

(* The body of handleSearchCity, up to the await of fetch, as the render of *)
(* instance i with the search field content q closed over it.  The state   *)
(* updates and the response of a page that is no longer mounted are lost.  *)
SearchCity(i, q) ==
    IF Trim(q) = ""
    THEN /\ startEvent' = StartEvent("searchNothing", 0)
         /\ UNCHANGED <<isSearching, startError, searchResults, searchLog, searchPending>>
    ELSE /\ Len(searchLog) < MaxSearches
         /\ searchLog' = Append(searchLog, q)
         /\ startEvent' = StartEvent("search", Len(searchLog) + 1)
         /\ IF startPageShown /\ i = startInstance
            THEN /\ isSearching' = TRUE
                 /\ startError' = Null
                 /\ searchResults' = << >>
                 /\ searchPending' = searchPending \cup {Len(searchLog) + 1}
            ELSE UNCHANGED <<isSearching, startError, searchResults, searchPending>>

(* StartPage.handleSearchCity of the current render *)
handleSearchCity ==
    /\ startPageShown
    /\ SearchCity(startInstance, searchQuery)
    /\ UNCHANGED <<geoSupported, startInstance, searchQuery, isLoadingLocation, geoPending,
                   timers>>
    /\ UNCHANGED barsVars

(* onClick of a popular-city button: setSearchQuery(city), then setTimeout *)
(* with the handleSearchCity of the render that was clicked               *)
clickPopularCity(city) ==
    /\ startPageShown
    /\ Cardinality(timers) < MaxTimers
    /\ searchQuery' = city
    /\ timers' = timers \cup {[instance |-> startInstance, query |-> searchQuery,
                                city |-> city]}
    /\ startEvent' = StartEvent("city", 0)
    /\ UNCHANGED <<geoSupported, startInstance, isLoadingLocation, isSearching, startError,
                   searchResults, geoPending, searchLog, searchPending>>
    /\ UNCHANGED barsVars

(* the timeout of a popular-city click expires *)
cityTimerFired(t) ==
    /\ t \in timers
    /\ timers' = timers \ {t}
    /\ SearchCity(t.instance, t.query)
    /\ UNCHANGED <<geoSupported, startInstance, searchQuery, isLoadingLocation, geoPending>>
    /\ UNCHANGED barsVars

(* the Search button: disabled={isSearching || !searchQuery.trim()} *)
SearchButton ==
    /\ ~(isSearching \/ Trim(searchQuery) = "")
    /\ handleSearchCity

(* StartPage.handleKeyPress: Enter in the search input *)
handleKeyPress(key) ==
    /\ key = "Enter"
    /\ handleSearchCity

(* handleSearchCity after the response of search k was parsed: try, finally *)
SearchResolved(k, data) ==
    /\ k \in searchPending
    /\ searchPending' = searchPending \ {k}
    /\ IF Len(data) = 0
       THEN /\ startError' = Some("No locations found. Try a different search term.")
            /\ startEvent' = StartEvent("searchEmpty", k)
            /\ UNCHANGED searchResults
       ELSE /\ searchResults' = data
            /\ startEvent' = StartEvent("searchFound", k)
            /\ UNCHANGED startError
    /\ isSearching' = FALSE
    /\ UNCHANGED <<geoSupported, startInstance, searchQuery, isLoadingLocation, geoPending,
                   searchLog, timers>>
    /\ UNCHANGED barsVars

(* handleSearchCity when search k threw (network error, response not ok, *)
(* unparsable body): catch, finally                                      *)
SearchFailed(k, why) ==
    /\ k \in searchPending
    /\ searchPending' = searchPending \ {k}
    /\ startError' = Some("Failed to search for location. Please try again.")
    /\ isSearching' = FALSE
    /\ startEvent' = StartEvent("searchFailed", k)
    /\ UNCHANGED <<geoSupported, startInstance, searchQuery, isLoadingLocation, searchResults,
                   geoPending, searchLog, timers>>
    /\ UNCHANGED barsVars

(* StartPage.handleSelectSearchResult for the i-th candidate *)
handleSelectSearchResult(i) ==
    /\ startPageShown
    /\ i \in 1..Len(searchResults)
    /\ handleLocationSelected(searchResults[i], "display_name")
    /\ StartPageUnmounts
    /\ startEvent' = StartEvent("select", i)
    /\ UNCHANGED <<geoSupported, geoPending, searchLog>>

----------------------------------------------------------------------------
(* The adapters of the places services: the Yelp service and the Foursquare *)
(* service.  A call logs the request it sends and waits for the response.   *)

(* what the upstream may answer: a status with a body, or no answer at all *)
OkBodies == {"full", "empty", "missing", "notjson"}
ErrorText == "Unauthorized"
HttpOutcomes ==
    [ok : {TRUE}, status : {"200"}, body : OkBodies]
        \cup [ok : {FALSE}, status : Statuses, body : {ErrorText}]
        \cup {[ok |-> FALSE, status |-> "", body |-> "network"]}

Thrown(msg) == [kind |-> "threw", message |-> msg, value |-> "", items |-> << >>]
Returned(value, items) == [kind |-> "returned", message |-> "", value |-> value, items |-> items]

Call(service, op, radiusArg, limitArg, id) ==
    [service |-> service, op |-> op, radius |-> radiusArg, limit |-> limitArg, id |-> id]

Request(service, op, radiusParam, limitParam, id, key) ==
    [service |-> service, op |-> op, radius |-> radiusParam, limit |-> limitParam, id |-> id,
     authorization |-> "Bearer " \o Trim(key)]

(* a credential check that knows no placeholder *)
KeyMissing_EmptyOnly(k) == k = ""

(* !KEY || KEY === 'your_api_key_here' *)
KeyMissing(k) == k = "" \/ k = PlaceholderKey

(* the call throws before the try block *)
ThrowsConfig(call, msg) ==
    /\ lastCall' = Some([call |-> call, response |-> Null, result |-> Thrown(msg)])
    /\ UNCHANGED <<requests, pending>>

(* the call sends its request and awaits fetch *)
Sends(call, request) ==
    /\ Len(requests) < MaxRequests
    /\ requests' = Append(requests, request)
    /\ pending' = Some(call)
    /\ UNCHANGED lastCall

(* yelp: fetchBarsFromYelp(radius, limit), up to the await of fetch *)
fetchBarsFromYelp(r, l) ==
    /\ pending = Null
    /\ IF KeyMissing(apiKey)
       THEN ThrowsConfig(Call("yelp", "search", r, l, ""),
              "Yelp API key is not configured. Please add VITE_YELP_API_KEY to your .env file.")
       ELSE Sends(Call("yelp", "search", r, l, ""),
                  Request("yelp", "search", NumberToString(Min(r, 40000)), NumberToString(Min(l, 50)),
                          "", apiKey))
    /\ UNCHANGED fsqKey

(* yelp: fetchBarDetails(barId), up to the await of fetch *)
fetchBarDetails(barId) ==
    /\ pending = Null
    /\ IF KeyMissing(apiKey)
       THEN ThrowsConfig(Call("yelp", "details", 0, 0, barId), "Yelp API key is not configured")
       ELSE Sends(Call("yelp", "details", 0, 0, barId),
                  Request("yelp", "details", "", "", barId, apiKey))
    /\ UNCHANGED fsqKey

(* yelp: fetchBarReviews(barId), up to the await of fetch *)
fetchBarReviews(barId) ==
    /\ pending = Null
    /\ IF KeyMissing(apiKey)
       THEN ThrowsConfig(Call("yelp", "reviews", 0, 0, barId), "Yelp API key is not configured")
       ELSE Sends(Call("yelp", "reviews", 0, 0, barId),
                  Request("yelp", "reviews", "", "", barId, apiKey))
    /\ UNCHANGED fsqKey

(* foursquare: fetchBarsFromFoursquare(radius, limit), up to the await of fetch *)
fetchBarsFromFoursquare(r, l) ==
    /\ pending = Null
    /\ IF KeyMissing(fsqKey)
       THEN ThrowsConfig(Call("foursquare", "search", r, l, ""),
              "Foursquare API key is not configured. Please add VITE_FOURSQUARE_API_KEY to your .env file.")
       ELSE Sends(Call("foursquare", "search", r, l, ""),
                  Request("foursquare", "search", NumberToString(r), NumberToString(l), "", fsqKey))
    /\ UNCHANGED fsqKey

(* foursquare: fetchBarDetails(barId), up to the await of fetch *)
fetchBarDetailsFoursquare(barId) ==
    /\ pending = Null
    /\ IF KeyMissing(fsqKey)
       THEN ThrowsConfig(Call("foursquare", "details", 0, 0, barId),
                         "Foursquare API key is not configured")
       ELSE Sends(Call("foursquare", "details", 0, 0, barId),
                  Request("foursquare", "details", "", "", barId, fsqKey))
    /\ UNCHANGED fsqKey

(* the rest of a search after fetch settled: !response.ok throws, a body *)
(* without results returns [], the catch block rethrows                   *)
SearchResult(prefix, resp) ==
    IF resp.body = "network" THEN Thrown("Failed to fetch")
    ELSE IF ~resp.ok THEN Thrown(prefix \o resp.status \o " - " \o resp.body)
    ELSE IF resp.body = "notjson" THEN Thrown("Unexpected token < in JSON at position 0")
    ELSE IF resp.body \in {"missing", "empty"} THEN Returned("list", << >>)
    ELSE Returned("list", <<"y2", "y1">>)

(* the rest of fetchBarDetails: whatever is thrown in the try block, the *)
(* catch block returns null                                              *)
DetailsResult(barId, resp) ==
    IF resp.ok /\ resp.body = "full" THEN Returned("bar", <<barId>>) ELSE Returned("null", << >>)

(* the rest of fetchBarReviews: data.reviews || [], and [] from the catch block *)
ReviewsResult(resp) ==
    IF resp.ok /\ resp.body = "full" THEN Returned("list", <<"r1">>) ELSE Returned("list", << >>)

ResultOf(call, resp) ==
    CASE call.op = "search" /\ call.service = "yelp" -> SearchResult("Yelp API error: ", resp)
      [] call.op = "search" /\ call.service = "foursquare" ->
             SearchResult("Foursquare API error: ", resp)
      [] call.op = "details" -> DetailsResult(call.id, resp)
      [] call.op = "reviews" -> ReviewsResult(resp)

(* fetch settled with resp: the pending call runs to its end *)
Responded(resp) ==
    /\ pending # Null
    /\ pending' = Null
    /\ lastCall' = Some([call |-> The(pending), response |-> Some(resp),
                         result |-> ResultOf(The(pending), resp)])
    /\ UNCHANGED <<fsqKey, requests>>

----------------------------------------------------------------------------
(* Conversion of an upstream place object into a Place Record *)

BarTypes == {"Cocktail", "Pub", "Sports", "Wine", "Craft-beer", "Nightclub"}

(* the lists of at most n labels *)
RECURSIVE LabelLists(_)
LabelLists(n) ==
    IF n = 0 THEN {<< >>}
    ELSE LabelLists(n - 1)
           \cup {Append(l, x) : l \in {m \in LabelLists(n - 1) : Len(m) = n - 1}, x \in Labels}

Businesses ==
    [categories : LabelLists(MaxLabels),
     price : {Null} \cup {Some(p) : p \in Prices},
     image_url : {Null} \cup {Some(u) : u \in ImageUrls}]

(* a rule table with a type of its own for lounges *)
YelpRule_Lounge(alias) ==
    IF Includes(alias, "cocktail") THEN Some("Cocktail")
    ELSE IF Includes(alias, "wine") THEN Some("Wine")
    ELSE IF Includes(alias, "sports") THEN Some("Sports")
    ELSE IF Includes(alias, "nightclub") \/ alias = "nightlife" THEN Some("Nightclub")
    ELSE IF Includes(alias, "brew") \/ Includes(alias, "beer") THEN Some("Craft-beer")
    ELSE IF Includes(alias, "pub") THEN Some("Pub")
    ELSE IF Includes(alias, "lounge") THEN Some("Lounge")
    ELSE Null

(* the body of the loop of the Yelp determineBarType for one alias: the type *)
(* returned, or Null to go on with the next category                         *)
YelpRule(alias) ==
    IF Includes(alias, "cocktail") THEN Some("Cocktail")
    ELSE IF Includes(alias, "wine") THEN Some("Wine")
    ELSE IF Includes(alias, "sports") THEN Some("Sports")
    ELSE IF Includes(alias, "nightclub") \/ alias = "nightlife" THEN Some("Nightclub")
    ELSE IF Includes(alias, "brew") \/ Includes(alias, "beer") THEN Some("Craft-beer")
    ELSE IF Includes(alias, "pub") THEN Some("Pub")
    ELSE Null

(* a scan that tries each rule on every label before the next rule *)
determineBarType_RuleMajor(categories) ==
    LET has(t) == \E i \in 1..Len(categories) : Includes(toLowerCase(categories[i]), t)
        is(t) == \E i \in 1..Len(categories) : toLowerCase(categories[i]) = t
    IN  IF has("cocktail") THEN "Cocktail"
        ELSE IF has("wine") THEN "Wine"
        ELSE IF has("sports") THEN "Sports"
        ELSE IF has("nightclub") \/ is("nightlife") THEN "Nightclub"
        ELSE IF has("brew") \/ has("beer") THEN "Craft-beer"
        ELSE "Pub"

(* yelp: determineBarType *)
RECURSIVE determineBarType(_)
determineBarType(categories) ==
    IF Len(categories) = 0 THEN "Pub"
    ELSE IF YelpRule(toLowerCase(Head(categories))) # Null
         THEN The(YelpRule(toLowerCase(Head(categories))))
         ELSE determineBarType(Tail(categories))

(* the body of the loop of the Foursquare determineBarType for one short_name *)
FoursquareRule(categoryName) ==
    IF Includes(categoryName, "cocktail") THEN Some("Cocktail")
    ELSE IF Includes(categoryName, "wine") THEN Some("Wine")
    ELSE IF Includes(categoryName, "sports") THEN Some("Sports")
    ELSE IF Includes(categoryName, "nightclub") \/ Includes(categoryName, "night club")
         THEN Some("Nightclub")
    ELSE IF Includes(categoryName, "brewery") \/ Includes(categoryName, "craft")
              \/ Includes(categoryName, "beer")
         THEN Some("Craft-beer")
    ELSE Null

(* foursquare: determineBarType *)
RECURSIVE determineBarTypeFoursquare(_)
determineBarTypeFoursquare(categories) ==
    IF Len(categories) = 0 THEN "Pub"
    ELSE IF FoursquareRule(toLowerCase(Head(categories))) # Null
         THEN The(FoursquareRule(toLowerCase(Head(categories))))
         ELSE determineBarTypeFoursquare(Tail(categories))

(* yelp: convertPriceLevel *)
convertPriceLevel(price) ==
    IF price = Null \/ The(price) = "" THEN 2 ELSE Len(The(price))

(* yelp: getImageUrl *)
getImageUrl(b) ==
    IF b.image_url # Null /\ The(b.image_url) # "" /\ Trim(The(b.image_url)) # ""
    THEN The(b.image_url)
    ELSE LET categoryAlias ==
                 IF Len(b.categories) > 0 THEN toLowerCase(b.categories[1]) ELSE ""
         IN  IF Includes(categoryAlias, "cocktail")
             THEN "https://images.unsplash.com/photo-1514362545857-3bc16c4c7d1b?w=800&h=600&fit=crop"
             ELSE IF Includes(categoryAlias, "wine")
             THEN "https://images.unsplash.com/photo-1510812431401-41d2bd2722f3?w=800&h=600&fit=crop"
             ELSE IF Includes(categoryAlias, "brew") \/ Includes(categoryAlias, "beer")
             THEN "https://images.unsplash.com/photo-1608270586620-248524c67de9?w=800&h=600&fit=crop"
             ELSE IF Includes(categoryAlias, "pub")
             THEN "https://images.unsplash.com/photo-1543007631-283050bb3e8c?w=800&h=600&fit=crop"
             ELSE IF Includes(categoryAlias, "nightclub") \/ Includes(categoryAlias, "nightlife")
             THEN "https://images.unsplash.com/photo-1470337458703-46ad1756a187?w=800&h=600&fit=crop"
             ELSE "https://images.unsplash.com/photo-1566417713940-fe7c737a9ef2?w=800&h=600&fit=crop"

(* yelp: convertToBar, the derived fields *)
convertToBar ==
    /\ bar = Null
    /\ bar' = Some([service |-> "yelp",
                     type |-> determineBarType(business.categories),
                     image |-> getImageUrl(business),
                     priceLevel |-> convertPriceLevel(business.price)])
    /\ UNCHANGED business

(* foursquare: convertToBar, the derived fields *)
convertToBarFoursquare ==
    /\ bar = Null
    /\ bar' = Some([service |-> "foursquare",
                     type |-> determineBarTypeFoursquare(business.categories),
                     image |-> "https://images.unsplash.com/photo-1514362545857-3bc16c4c7d1b?w=800&h=600&fit=crop",
                     priceLevel |-> 2])
    /\ UNCHANGED business

----------------------------------------------------------------------------
(* useGeolocation *)

(* the message chosen by the error callback of the hook *)
GeoMessage(code) ==
    CASE code = 1 -> "Location permission denied. Using Bergen city center."
      [] code = 2 -> "Location information unavailable. Using Bergen city center."
      [] code = 3 -> "Location request timed out. Using Bergen city center."
      [] OTHER -> "Failed to get your location"

(* the effect of the hook, run once after the first render *)
useGeolocationEffect ==
    /\ geoRequest = "idle"
    /\ IF ~geoSupported
       THEN /\ geoError' = Some("Geolocation is not supported by your browser")
            /\ geoCoordinates' = Some(BERGEN_COORDINATES)
            /\ geoLoading' = FALSE
            /\ geoRequest' = "settled"
       ELSE /\ geoRequest' = "pending"
            /\ UNCHANGED <<geoCoordinates, geoLoading, geoError>>
    /\ UNCHANGED <<geoSupported, geoOutcome>>

(* the success callback: position.coords becomes the coordinate *)
PositionReceived(p) ==
    /\ geoRequest = "pending"
    /\ geoRequest' = "settled"
    /\ geoCoordinates' = Some([latitude |-> p.latitude, longitude |-> p.longitude])
    /\ geoLoading' = FALSE
    /\ geoError' = Null
    /\ geoOutcome' = Some([position |-> p, code |-> 0])
    /\ UNCHANGED geoSupported

(* an error callback that reports the failure and sets no coordinate *)
PositionFailed_NoFallback(code) ==
    /\ geoRequest = "pending"
    /\ geoRequest' = "settled"
    /\ geoError' = Some(GeoMessage(code))
    /\ geoLoading' = FALSE
    /\ geoOutcome' = Some([position |-> BERGEN_COORDINATES, code |-> code])
    /\ UNCHANGED <<geoSupported, geoCoordinates>>

(* the error callback: a message for the code, and the default coordinate *)
PositionFailed(code) ==
    /\ geoRequest = "pending"
    /\ geoRequest' = "settled"
    /\ geoError' = Some(GeoMessage(code))
    /\ geoCoordinates' = Some(BERGEN_COORDINATES)
    /\ geoLoading' = FALSE
    /\ geoOutcome' = Some([position |-> BERGEN_COORDINATES, code |-> code])
    /\ UNCHANGED geoSupported

----------------------------------------------------------------------------
(* useBars *)

(* refetch without its early return *)
refetch_NoGuard ==
    /\ StartFetch(coordinates, radius, "refetch", "refetch")
    /\ UNCHANGED <<apiKey, selectedLocation, radius, nextRef, revPending>>

(* useBars.refetch *)
refetch ==
    /\ IF coordinates = Null
       THEN NoFetch("refetch")
       ELSE StartFetch(coordinates, radius, "refetch", "refetch")
    /\ UNCHANGED <<apiKey, selectedLocation, radius, nextRef, revPending>>

(* a success handler that shows the built-in dataset for an empty result *)
FetchSucceeded_MockOnEmpty(k, data) ==
    /\ k \in inflight
    /\ data \in Successes(apiKey)
    /\ inflight' = inflight \ {k}
    /\ bars' = IF data = << >> THEN mockBars ELSE data
    /\ usingMockData' = (data = << >>)
    /\ loading' = FALSE
    /\ barsFrom' = k
    /\ lastEvent' = Event("done", k, "ok", Len(data))
    /\ UNCHANGED <<apiKey, selectedLocation, radius, nextRef, revPending, error, calls>>

(* the await of call k resolved with data: try block, then finally *)
FetchSucceeded(k, data) ==
    /\ k \in inflight
    /\ data \in Successes(apiKey)
    /\ inflight' = inflight \ {k}
    /\ bars' = data
    /\ usingMockData' = FALSE
    /\ loading' = FALSE
    /\ barsFrom' = k
    /\ lastEvent' = Event("done", k, "ok", Len(data))
    /\ UNCHANGED <<apiKey, selectedLocation, radius, nextRef, revPending, error, calls>>

(* a failure handler that reports the error but leaves the list alone *)
FetchFailed_NoFallback(k, err) ==
    /\ k \in inflight
    /\ err \in Failures(apiKey)
    /\ inflight' = inflight \ {k}
    /\ error' = Some(errorMessage(err))
    /\ loading' = FALSE
    /\ lastEvent' = Event("done", k, err.kind, 0)
    /\ UNCHANGED <<apiKey, selectedLocation, radius, nextRef, revPending, calls,
                   bars, usingMockData, barsFrom>>

(* the await of call k rejected with err: catch block, then finally *)
FetchFailed(k, err) ==
    /\ k \in inflight
    /\ err \in Failures(apiKey)
    /\ inflight' = inflight \ {k}
    /\ error' = Some(errorMessage(err))
    /\ bars' = mockBars
    /\ usingMockData' = TRUE
    /\ loading' = FALSE
    /\ barsFrom' = 0
    /\ lastEvent' = Event("done", k, err.kind, 0)
    /\ UNCHANGED <<apiKey, selectedLocation, radius, nextRef, revPending, calls>>

----------------------------------------------------------------------------
(* Favorites Store: a JavaScript Set<string> is kept as the sequence of its *)
(* members in insertion order                                               *)

SetHas(set, x) == \E i \in 1..Len(set) : set[i] = x

(* Set.prototype.add: a new member goes last, a present one keeps its place *)
SetAdd(set, x) == IF SetHas(set, x) THEN set ELSE Append(set, x)

(* Set.prototype.delete: the other members keep their order *)
SetDelete(set, x) == SelectSeq(set, LAMBDA y : y # x)

(* new Set(iterable): members in order of first occurrence *)
RECURSIVE NewSet(_)
NewSet(arr) ==
    IF arr = << >> THEN << >>
    ELSE SetAdd(NewSet(SubSeq(arr, 1, Len(arr) - 1)), arr[Len(arr)])

(* Array.from(set): the members in insertion order *)
ArrayFrom(set) == set

(* JSON.stringify of an array of strings, and JSON.parse of that text: *)
(* the stored text is kept as the list it denotes                        *)
Stringify(arr) == Some(arr)
Parse(text) == The(text)

(* an updater that only ever adds *)
Toggled_AddOnly(prev, barId) == SetAdd(NewSet(prev), barId)

(* the updater passed to setFavorites by toggleFavorite *)
Toggled(prev, barId) ==
    IF SetHas(NewSet(prev), barId)
    THEN SetDelete(NewSet(prev), barId)
    ELSE SetAdd(NewSet(prev), barId)

(* React applies the queued updates in order *)
ApplyUpdate(u, prev) == IF u.kind = "set" THEN u.value ELSE Toggled(prev, u.id)

RECURSIVE ApplyUpdates(_, _)
ApplyUpdates(queue, prev) ==
    IF queue = << >> THEN prev
    ELSE ApplyUpdates(Tail(queue), ApplyUpdate(Head(queue), prev))

SetValue(v) == [kind |-> "set", value |-> v, id |-> ""]
ToggleOf(barId) == [kind |-> "toggle", value |-> << >>, id |-> barId]

NoPair == [n |-> 0, id |-> "", favorites |-> << >>, storage |-> Null]

(* First commit of Index: the load effect, then the save effect *)
Mount ==
    /\ ~mounted
    /\ mounted' = TRUE
    /\ reads' = 1
    /\ stored0' = storage
    /\ toggled' = FALSE
    /\ pair' = NoPair
    /\ updates' = IF storage # Null THEN <<SetValue(NewSet(Parse(storage)))>> ELSE << >>
    /\ storage' = Stringify(ArrayFrom(favorites))
    /\ UNCHANGED favorites

(* Index.toggleFavorite *)
toggleFavorite(barId) ==
    /\ mounted
    /\ Len(updates) < MaxUpdates
    /\ updates' = Append(updates, ToggleOf(barId))
    /\ toggled' = TRUE
    /\ pair' = IF pair.n = 1 /\ pair.id = barId THEN [pair EXCEPT !.n = 2]
               ELSE IF updates = << >>
               THEN [n |-> 1, id |-> barId, favorites |-> favorites, storage |-> storage]
               ELSE NoPair
    /\ UNCHANGED <<favorites, storage, mounted, stored0, reads>>

(* a re-render whose save effect is skipped *)
Render_NoSave ==
    /\ mounted
    /\ updates # << >>
    /\ favorites' = ApplyUpdates(updates, favorites)
    /\ updates' = << >>
    /\ UNCHANGED <<storage, mounted, stored0, toggled, reads, pair>>

(* Re-render of Index with the queued updates, then the save effect *)
Render ==
    /\ mounted
    /\ updates # << >>
    /\ favorites' = ApplyUpdates(updates, favorites)
    /\ updates' = << >>
    /\ storage' = Stringify(ArrayFrom(favorites'))
    /\ UNCHANGED <<mounted, stored0, toggled, reads, pair>>

(* The page is closed or reloaded: component state is lost, storage stays *)
EndSession ==
    /\ mounted
    /\ mounted' = FALSE
    /\ favorites' = << >>
    /\ updates' = << >>
    /\ pair' = NoPair
    /\ UNCHANGED <<storage, stored0, toggled, reads>>

----------------------------------------------------------------------------
InitFavIdle ==
    /\ favorites = << >>
    /\ storage = Null
    /\ updates = << >>
    /\ mounted = FALSE
    /\ stored0 = Null
    /\ toggled = FALSE
    /\ reads = 0
    /\ pair = NoPair

InitStartState ==
    /\ startInstance = 1
    /\ searchQuery = ""
    /\ isLoadingLocation = FALSE
    /\ isSearching = FALSE
    /\ startError = Null
    /\ searchResults = << >>
    /\ geoPending = {}
    /\ searchLog = << >>
    /\ searchPending = {}
    /\ timers = {}
    /\ startEvent = StartEvent("mount", 0)

InitStartIdle ==
    /\ geoSupported = TRUE
    /\ InitStartState

InitGeoState ==
    /\ geoCoordinates = Null
    /\ geoLoading = TRUE
    /\ geoError = Null
    /\ geoRequest = "idle"
    /\ geoOutcome = Null

InitAdapterIdle ==
    /\ fsqKey = "key"
    /\ requests = << >>
    /\ pending = Null
    /\ lastCall = Null

InitConvertIdle ==
    /\ business = [categories |-> << >>, price |-> Null, image_url |-> Null]
    /\ bar = Null

(* Index: filteredBars = bars.filter(...).sort(...), computed in every render *)

(* a Place Record with the fields the pipeline reads; its id is its place in *)
(* the list the controller holds                                             *)
BarRecord(id, type, rating, distance, isOpenNow) ==
    [id |-> id, type |-> type, rating |-> rating, distance |-> distance,
     isOpenNow |-> isOpenNow, priceLevel |-> 2, description |-> "Bar * 12 reviews"]

IsDigit(c) == \E d \in 0..9 : Digit(d) = c

(* bar.description.match(/(\d+)\s+reviews?/i), then parseInt(match[1]) or 0 *)
getReviewCount(b) ==
    LET d == toLowerCase(b.description)
        n == Len(d)
        ch(i) == SubSeq(d, i, i)
        digitsEnd(i) == CHOOSE j \in i..n :
                            /\ \A k \in i..j : IsDigit(ch(k))
                            /\ (j = n \/ ~IsDigit(ch(j + 1)))
        matchAt(i) ==
            /\ IsDigit(ch(i))
            /\ \E k \in (digitsEnd(i) + 1)..n :
                   /\ \A m \in (digitsEnd(i) + 1)..k : ch(m) = " "
                   /\ SubSeq(d, k + 1, k + 6) = "review"
        starts == {i \in 1..n : matchAt(i)}
        first == CHOOSE i \in starts : \A j \in starts : i <= j
        value(str) == LET RECURSIVE nat(_)
                          nat(t) == IF Len(t) = 0 THEN 0
                                    ELSE 10 * nat(SubSeq(t, 1, Len(t) - 1))
                                           + (CHOOSE v \in 0..9 : Digit(v) = SubSeq(t, Len(t), Len(t)))
                      IN  nat(str)
    IN  IF starts = {} THEN 0 ELSE value(SubSeq(d, first, digitsEnd(first)))

(* a filter callback whose rating threshold is exclusive *)
Keeps_ExclusiveRating(b) ==
    /\ ~(selectedType # Null /\ b.type # The(selectedType))
    /\ ~(showFavoritesOnly /\ ~SetHas(favorites, b.id))
    /\ ~(minRating > 0 /\ b.rating <= minRating)
    /\ ~(openOnly /\ ~(b.isOpenNow # Null /\ The(b.isOpenNow)))

(* the callback of bars.filter *)
Keeps(b) ==
    /\ ~(selectedType # Null /\ b.type # The(selectedType))
    /\ ~(showFavoritesOnly /\ ~SetHas(favorites, b.id))
    /\ ~(minRating > 0 /\ b.rating < minRating)
    /\ ~(openOnly /\ ~(b.isOpenNow # Null /\ The(b.isOpenNow)))

(* the callback of sort, for the current sortBy *)
compare(a, b) ==
    CASE sortBy = "rating" -> b.rating - a.rating
      [] sortBy = "distance" ->
             IF a.distance # Null /\ b.distance # Null
             THEN The(a.distance) - The(b.distance)
             ELSE 0
      [] sortBy = "reviews" -> getReviewCount(b) - getReviewCount(a)
      [] sortBy = "price-low" -> a.priceLevel - b.priceLevel
      [] sortBy = "price-high" -> b.priceLevel - a.priceLevel
      [] OTHER ->
             LET aHasStatus == a.isOpenNow # Null
                 bHasStatus == b.isOpenNow # Null
             IN  IF aHasStatus /\ ~bHasStatus THEN -1
                 ELSE IF ~aHasStatus /\ bHasStatus THEN 1
                 ELSE IF aHasStatus /\ bHasStatus /\ The(a.isOpenNow) /\ ~The(b.isOpenNow) THEN -1
                 ELSE IF aHasStatus /\ bHasStatus /\ ~The(a.isOpenNow) /\ The(b.isOpenNow) THEN 1
                 ELSE IF a.distance # Null /\ b.distance # Null
                      THEN The(a.distance) - The(b.distance)
                      ELSE b.rating - a.rating

(* Array.prototype.sort on a short array, SpiderMonkey: insertion sort that *)
(* moves the item left past every element comparing greater                 *)
RECURSIVE LinearInsert(_, _)
LinearInsert(sorted, item) ==
    IF Len(sorted) = 0 \/ compare(sorted[Len(sorted)], item) <= 0
    THEN Append(sorted, item)
    ELSE Append(LinearInsert(SubSeq(sorted, 1, Len(sorted) - 1), item), sorted[Len(sorted)])

RECURSIVE InsertionSort(_, _)
InsertionSort(sorted, rest) ==
    IF Len(rest) = 0 THEN sorted ELSE InsertionSort(LinearInsert(sorted, Head(rest)), Tail(rest))

(* Array.prototype.sort on a short array, V8: the first run is found (and *)
(* reversed if strictly descending), the rest goes in by binary insertion *)
RECURSIVE RunEnd(_, _, _)
RunEnd(a, k, descending) ==
    IF k > Len(a) THEN Len(a)
    ELSE IF descending /\ compare(a[k], a[k - 1]) >= 0 THEN k - 1
    ELSE IF ~descending /\ compare(a[k], a[k - 1]) < 0 THEN k - 1
    ELSE RunEnd(a, k + 1, descending)

Reverse(a) == [i \in 1..Len(a) |-> a[Len(a) + 1 - i]]

RECURSIVE BinaryPosition(_, _, _, _)
BinaryPosition(sorted, pivot, left, right) ==
    IF left >= right THEN left
    ELSE LET mid == left + ((right - left) \div 2)
         IN  IF compare(pivot, sorted[mid + 1]) < 0
             THEN BinaryPosition(sorted, pivot, left, mid)
             ELSE BinaryPosition(sorted, pivot, mid + 1, right)

RECURSIVE BinaryInsertionSort(_, _)
BinaryInsertionSort(sorted, rest) ==
    IF Len(rest) = 0 THEN sorted
    ELSE LET at == BinaryPosition(sorted, Head(rest), 0, Len(sorted))
         IN  BinaryInsertionSort(SubSeq(sorted, 1, at) \o <<Head(rest)>>
                                   \o SubSeq(sorted, at + 1, Len(sorted)),
                                 Tail(rest))

TimSort(a) ==
    IF Len(a) < 2 THEN a
    ELSE LET descending == compare(a[2], a[1]) < 0
             end == RunEnd(a, 3, descending)
             run == IF descending THEN Reverse(SubSeq(a, 1, end)) ELSE SubSeq(a, 1, end)
         IN  BinaryInsertionSort(run, SubSeq(a, end + 1, Len(a)))

(* array.sort(compare): the sorted array *)
Sort(a) == IF engine = "v8" THEN TimSort(a) ELSE InsertionSort(<< >>, a)

(* a render that sorts the controller's array itself *)
RenderIndex_SortInPlace ==
    /\ renders < MaxRenders
    /\ renders' = renders + 1
    /\ prevFiltered' = filteredBars
    /\ bars' = Sort(bars)
    /\ filteredBars' = Some(SelectSeq(Sort(bars), Keeps))
    /\ UNCHANGED <<selectedType, showFavoritesOnly, minRating, openOnly, sortBy, engine, bars0>>
    /\ UNCHANGED <<apiKey, selectedLocation, radius, nextRef, revPending, loading, error,
                   usingMockData, calls, inflight, barsFrom, lastEvent>>
    /\ UNCHANGED favVars

(* a render of Index: filter returns a new array, which sort orders in place *)
RenderIndex ==
    /\ renders < MaxRenders
    /\ renders' = renders + 1
    /\ prevFiltered' = filteredBars
    /\ filteredBars' = Some(Sort(SelectSeq(bars, Keeps)))
    /\ bars' = bars
    /\ UNCHANGED <<selectedType, showFavoritesOnly, minRating, openOnly, sortBy, engine, bars0>>
    /\ UNCHANGED <<apiKey, selectedLocation, radius, nextRef, revPending, loading, error,
                   usingMockData, calls, inflight, barsFrom, lastEvent>>
    /\ UNCHANGED favVars

InitPipelineIdle ==
    /\ selectedType = Null
    /\ showFavoritesOnly = FALSE
    /\ minRating = 0
    /\ openOnly = FALSE
    /\ sortBy = "default"
    /\ engine = "v8"
    /\ filteredBars = Null
    /\ renders = 0
    /\ bars0 = << >>
    /\ prevFiltered = Null

InitBarsState ==
    /\ selectedLocation = Null
    /\ radius = DefaultRadius
    /\ nextRef = 1
    /\ revPending = {}
    /\ bars = << >>
    /\ loading = useApi
    /\ error = Null
    /\ usingMockData = ~useApi
    /\ calls = << >>
    /\ inflight = {}
    /\ barsFrom = 0
    /\ lastEvent = Event("mount", 0, "", 0)

InitBars ==
    /\ apiKey \in ApiKeys
    /\ InitBarsState
    /\ InitFavIdle
    /\ InitStartIdle
    /\ InitGeoState
    /\ InitAdapterIdle
    /\ InitConvertIdle
    /\ InitPipelineIdle

NextBars ==
    \/ \E p \in Positions, n \in LocationNames : StartPageSelects(p, n) /\ UNCHANGED exceptBars
    \/ \E p \in Positions : handleLocationChange(p) /\ UNCHANGED exceptBars
    \/ \E c \in revPending, n \in CityNames : ReverseGeocoded(c, n) /\ UNCHANGED exceptBars
    \/ \E c \in revPending : ReverseFailed(c) /\ UNCHANGED exceptBars
    \/ handleBackToStart /\ UNCHANGED exceptBars
    \/ \E r \in Radii : setRadius(r) /\ UNCHANGED exceptBars
    \/ refetch /\ UNCHANGED exceptBars
    \/ \E k \in inflight, d \in Responses : FetchSucceeded(k, d) /\ UNCHANGED exceptBars
    \/ \E k \in inflight, e \in Failures(apiKey) : FetchFailed(k, e) /\ UNCHANGED exceptBars

SpecBars == InitBars /\ [][NextBars]_vars

InitFav ==
    /\ apiKey = "key"
    /\ InitBarsState
    /\ InitFavIdle
    /\ InitStartIdle
    /\ InitGeoState
    /\ InitAdapterIdle
    /\ InitConvertIdle
    /\ InitPipelineIdle

NextFav ==
    \/ Mount /\ UNCHANGED exceptFav
    \/ \E id \in FavIds : toggleFavorite(id) /\ UNCHANGED exceptFav
    \/ Render /\ UNCHANGED exceptFav
    \/ EndSession /\ UNCHANGED exceptFav

SpecFav == InitFav /\ [][NextFav]_vars

(* The start page, up to the search that a selection makes the controller *)
(* issue; how that search settles is the subject of SpecBars              *)
InitStart ==
    /\ apiKey = "key"
    /\ InitBarsState
    /\ InitFavIdle
    /\ geoSupported \in BOOLEAN
    /\ InitStartState
    /\ InitGeoState
    /\ InitAdapterIdle
    /\ InitConvertIdle
    /\ InitPipelineIdle

NextStart ==
    \/ handleUseMyLocation /\ UNCHANGED exceptStart
    \/ \E i \in geoPending, p \in Positions : GeoSucceeded(i, p) /\ UNCHANGED exceptStart
    \/ \E i \in geoPending, c \in GeoErrorCodes : GeoFailed(i, c) /\ UNCHANGED exceptStart
    \/ \E q \in Queries : setSearchQuery(q) /\ UNCHANGED exceptStart
    \/ SearchButton /\ UNCHANGED exceptStart
    \/ handleKeyPress("Enter") /\ UNCHANGED exceptStart
    \/ \E k \in searchPending, d \in Candidates \cup {<< >>} :
           SearchResolved(k, d) /\ UNCHANGED exceptStart
    \/ \E k \in searchPending, w \in SearchFailures : SearchFailed(k, w) /\ UNCHANGED exceptStart
    \/ \E i \in 1..Len(searchResults) : handleSelectSearchResult(i) /\ UNCHANGED exceptStart
    \/ handleBackToStart /\ UNCHANGED <<startVars, exceptStart>>

SpecStart == InitStart /\ [][NextStart]_vars

(* The search part of the start page with its popular-city buttons *)
InitCity ==
    /\ apiKey = "key"
    /\ InitBarsState
    /\ InitFavIdle
    /\ InitStartIdle
    /\ InitGeoState
    /\ InitAdapterIdle
    /\ InitConvertIdle
    /\ InitPipelineIdle

NextCity ==
    \/ \E q \in Queries : setSearchQuery(q) /\ UNCHANGED exceptStart
    \/ \E city \in PopularCities : clickPopularCity(city) /\ UNCHANGED exceptStart
    \/ \E t \in timers : cityTimerFired(t) /\ UNCHANGED exceptStart
    \/ SearchButton /\ UNCHANGED exceptStart
    \/ \E k \in searchPending, d \in Candidates \cup {<< >>} :
           SearchResolved(k, d) /\ UNCHANGED exceptStart
    \/ \E k \in searchPending, w \in SearchFailures : SearchFailed(k, w) /\ UNCHANGED exceptStart
    \/ \E i \in 1..Len(searchResults) : handleSelectSearchResult(i) /\ UNCHANGED exceptStart
    \/ handleBackToStart /\ UNCHANGED <<startVars, exceptStart>>

SpecCity == InitCity /\ [][NextCity]_vars

(* The geolocation hook on its own.  The request is made with a timeout, *)
(* so one of its callbacks is eventually called.                        *)
InitGeo ==
    /\ apiKey = "key"
    /\ InitBarsState
    /\ InitFavIdle
    /\ geoSupported \in BOOLEAN
    /\ InitStartState
    /\ InitGeoState
    /\ InitAdapterIdle
    /\ InitConvertIdle
    /\ InitPipelineIdle

NextGeo ==
    \/ useGeolocationEffect /\ UNCHANGED exceptGeo
    \/ \E p \in DevicePositions : PositionReceived(p) /\ UNCHANGED exceptGeo
    \/ \E c \in GeoErrorCodes : PositionFailed(c) /\ UNCHANGED exceptGeo

SpecGeo == InitGeo /\ [][NextGeo]_vars /\ WF_vars(NextGeo)

(* The adapters called directly *)
InitAdapter ==
    /\ apiKey \in ApiKeys
    /\ fsqKey \in ApiKeys
    /\ requests = << >>
    /\ pending = Null
    /\ lastCall = Null
    /\ InitBarsState
    /\ InitFavIdle
    /\ InitStartIdle
    /\ InitGeoState
    /\ InitConvertIdle
    /\ InitPipelineIdle

NextAdapter ==
    \/ \E r \in RadiusInputs, l \in LimitInputs : fetchBarsFromYelp(r, l) /\ UNCHANGED exceptAdapter
    \/ \E id \in BarIds : fetchBarDetails(id) /\ UNCHANGED exceptAdapter
    \/ \E id \in BarIds : fetchBarReviews(id) /\ UNCHANGED exceptAdapter
    \/ \E r \in RadiusInputs, l \in LimitInputs :
           fetchBarsFromFoursquare(r, l) /\ UNCHANGED exceptAdapter
    \/ \E id \in BarIds : fetchBarDetailsFoursquare(id) /\ UNCHANGED exceptAdapter
    \/ \E resp \in HttpOutcomes : Responded(resp) /\ UNCHANGED exceptAdapter

SpecAdapter == InitAdapter /\ [][NextAdapter]_vars

(* The conversion applied to every upstream place object of the domain *)
InitConvert ==
    /\ business \in Businesses
    /\ bar = Null
    /\ apiKey = "key"
    /\ InitBarsState
    /\ InitFavIdle
    /\ InitStartIdle
    /\ InitGeoState
    /\ InitAdapterIdle
    /\ InitPipelineIdle

NextConvert ==
    \/ convertToBar /\ UNCHANGED exceptConvert
    \/ convertToBarFoursquare /\ UNCHANGED exceptConvert

SpecConvert == InitConvert /\ [][NextConvert]_vars

(* The filter and sort pipeline of Index, applied to record lists that vary *)
(* in the fields the filters read, and to record lists that vary in the     *)
(* fields the comparators read                                              *)
RECURSIVE RecordLists(_, _)
RecordLists(n, fields) ==
    IF n = 0 THEN {<< >>}
    ELSE RecordLists(n - 1, fields)
           \cup {Append(l, BarRecord(NumberToString(n), f[1], f[2], f[3], f[4])) :
                   l \in {m \in RecordLists(n - 1, fields) : Len(m) = n - 1}, f \in fields}

InitFilterInputs ==
    /\ bars \in RecordLists(MaxFilterBars, FilterTypes \X Ratings \X {Null} \X OpenFlags)
    /\ favorites = <<"2">>
    /\ selectedType \in {Null, Some("Pub")}
    /\ showFavoritesOnly \in BOOLEAN
    /\ minRating \in {0, 5}
    /\ openOnly \in BOOLEAN
    /\ sortBy = "default"
    /\ engine = "v8"

InitDefaultSortInputs ==
    /\ bars \in RecordLists(MaxBars, {"Pub"} \X Ratings \X Distances \X {Null, Some(TRUE)})
    /\ sortBy = "default"

InitOtherSortInputs ==
    /\ bars \in RecordLists(MaxBars, {"Pub"} \X Ratings \X Distances \X {Null})
    /\ sortBy \in SortOptions \ {"default"}

InitSortInputs ==
    /\ InitDefaultSortInputs \/ InitOtherSortInputs
    /\ engine \in Engines
    /\ favorites = << >>
    /\ selectedType = Null
    /\ showFavoritesOnly = FALSE
    /\ minRating = 0
    /\ openOnly = FALSE

InitPipeline ==
    /\ InitFilterInputs \/ InitSortInputs
    /\ bars0 = bars
    /\ filteredBars = Null
    /\ prevFiltered = Null
    /\ renders = 0
    /\ apiKey = "key"
    /\ selectedLocation = Some([coordinates |-> [ref |-> 0, pos |-> "A"], name |-> "city"])
    /\ radius = DefaultRadius
    /\ nextRef = 1
    /\ revPending = {}
    /\ loading = FALSE
    /\ error = Null
    /\ usingMockData = FALSE
    /\ calls = << >>
    /\ inflight = {}
    /\ barsFrom = 0
    /\ lastEvent = Event("done", 0, "ok", 0)
    /\ storage = Null
    /\ updates = << >>
    /\ mounted = TRUE
    /\ stored0 = Null
    /\ toggled = FALSE
    /\ reads = 1
    /\ pair = NoPair
    /\ InitStartIdle
    /\ InitGeoState
    /\ InitAdapterIdle
    /\ InitConvertIdle

NextPipeline ==
    \/ RenderIndex /\ UNCHANGED <<startVars, geoVars, adapterVars, convertVars>>

SpecPipeline == InitPipeline /\ [][NextPipeline]_vars

----------------------------------------------------------------------------
(* The map view: the marker was dragged once, to a, the search for a has    *)
(* settled and the reverse-geocoding lookup for a is still on its way; the  *)
(* record of calls starts here.                                             *)
InitDrag ==
    /\ apiKey = "key"
    /\ \E a \in Positions :
          /\ selectedLocation = Some([coordinates |-> [ref |-> 1, pos |-> a],
                                      name |-> "(lat, lon)"])
          /\ revPending = {[ref |-> 1, pos |-> a]}
    /\ radius = DefaultRadius
    /\ nextRef = 2
    /\ bars \in Responses
    /\ loading = FALSE
    /\ error = Null
    /\ usingMockData = FALSE
    /\ calls = << >>
    /\ inflight = {}
    /\ barsFrom = 0
    /\ lastEvent = Event("drag", 0, "", 0)
    /\ InitFavIdle
    /\ InitStartIdle
    /\ InitGeoState
    /\ InitAdapterIdle
    /\ InitConvertIdle
    /\ InitPipelineIdle

NextDrag ==
    \/ \E p \in Positions : handleLocationChange(p) /\ UNCHANGED exceptBars
    \/ \E c \in revPending, n \in CityNames : ReverseGeocoded(c, n) /\ UNCHANGED exceptBars
    \/ \E c \in revPending : ReverseFailed(c) /\ UNCHANGED exceptBars
    \/ \E k \in inflight, d \in Responses : FetchSucceeded(k, d) /\ UNCHANGED exceptBars
    \/ \E k \in inflight, e \in Failures(apiKey) : FetchFailed(k, e) /\ UNCHANGED exceptBars

SpecDrag == InitDrag /\ [][NextDrag]_vars

----------------------------------------------------------------------------
(* Properties of the Bars Data Controller, checked under SpecBars *)

SettledOk == lastEvent.op = "done" /\ lastEvent.outcome = "ok"
SettledFailed == lastEvent.op = "done" /\ lastEvent.outcome # "ok"

(* C1: in every state reached by the completion of a successful fetch, under *)
(* any interleaving of overlapping fetches, error is null and usingMockData  *)
(* is false.                                                                 *)
C1_SuccessClearsErrorAndMock == SettledOk => (error = Null /\ ~usingMockData)

(* C2: the step that handles a failed fetch sets error to the failure message *)
(* (containing the status for an HTTP failure), sets the record list to the   *)
(* built-in dataset and usingMockData to true, and leaves loading false.      *)
C2_FailureFallsBackToMock ==
    SettledFailed =>
        /\ error # Null
        /\ lastEvent.outcome \in Statuses =>
               \E i \in 1..Len(The(error)) : The(error)[i] = lastEvent.outcome
        /\ lastEvent.outcome = "config" => The(error) = ConfigError.message
        /\ lastEvent.outcome = "network" => The(error) = NetworkError.message
        /\ bars = mockBars
        /\ usingMockData
        /\ ~loading

C2_Witness ==
    /\ SettledFailed
    /\ lastEvent.outcome = "401"
    /\ barsFrom = 0
    /\ bars = mockBars
    /\ inflight # {}

(* C3: whenever the error message is non-null, the record list is the *)
(* non-empty built-in dataset and usingMockData is true.              *)
C3_ErrorImpliesMock ==
    error # Null => (bars = mockBars /\ bars # << >> /\ usingMockData)

(* C4: whenever no fetch is in flight and usingMockData is false, the record *)
(* list shown for a location is the response to the search issued for the    *)
(* coordinate exposed as userLocation.                                       *)
C4_BarsAnswerCurrentQuery ==
    (inflight = {} /\ ~usingMockData /\ userLocation # Null /\ barsFrom # 0) =>
        The(calls[barsFrom].coordinates).pos = The(userLocation).pos

(* C5: no places search is ever issued without a coordinate, and a run of the *)
(* effect or of refetch() while the coordinate input is null leaves bars,     *)
(* error, usingMockData and the outstanding calls unchanged.                  *)
C5_NoSearchWithoutCoordinate ==
    /\ [](\A k \in 1..Len(calls) : calls[k].coordinates # Null)
    /\ [][(coordinates' = Null /\ lastEvent'.op # "done") =>
            UNCHANGED <<calls, inflight, bars, error, usingMockData>>]_vars

C5_Witness ==
    /\ lastEvent.op = "refetch"
    /\ coordinates = Null
    /\ lastEvent.call = 0
    /\ barsFrom # 0

(* C6: every change of the input coordinate (to a non-null one) or of the    *)
(* radius starts exactly one search carrying the new coordinate and the      *)
(* current radius, issued by the effect; a commit that changes neither (the  *)
(* second update of one pin drag) starts none.                               *)
C6_OneSearchPerChange ==
    [][/\ ((coordinates' # coordinates \/ radius' # radius) /\ coordinates' # Null) =>
            /\ Len(calls') = Len(calls) + 1
            /\ calls'[Len(calls')].coordinates = coordinates'
            /\ calls'[Len(calls')].radius = radius'
            /\ calls'[Len(calls')].via = "effect"
            /\ SubSeq(calls', 1, Len(calls)) = calls
       /\ (coordinates' = coordinates /\ radius' = radius /\ lastEvent'.op # "refetch") =>
            calls' = calls]_vars

C6_Witness ==
    /\ lastEvent.op = "reverse"
    /\ lastEvent.call = 0
    /\ selectedLocation # Null
    /\ The(selectedLocation).name = "city"
    /\ \E k \in 1..Len(calls) :
           /\ calls[k].coordinates = coordinates
           /\ calls[k].via = "effect"
           /\ \A j \in 1..Len(calls) : calls[j].coordinates = coordinates => j = k

(* The call that settled last was outstanding alone for its whole life *)
RanAlone(k) == ~calls[k].concurrent /\ k = Len(calls)

----------------------------------------------------------------------------
(* Properties of the Favorites Store, checked under SpecFav *)

Members(list) == {list[i] : i \in 1..Len(list)}
StoredList == IF storage = Null THEN << >> ELSE The(storage)
Quiescent == mounted /\ updates = << >>
ToggledTwice == Quiescent /\ pair.n = 2

(* C8: toggling the same id twice in a row returns the store to its original *)
(* membership and to its original persisted list, for every initial list and *)
(* every id.                                                                 *)
C8_ToggleTwiceRestoresStore ==
    ToggledTwice =>
        /\ Members(favorites) = Members(pair.favorites)
        /\ storage = pair.storage

(* C8 as amended: toggling the same id twice in a row restores the membership *)
(* and the set of persisted ids; the persisted list is the original one when  *)
(* the id was not a favorite or was last in the list, and otherwise the id    *)
(* has moved to the end while the other ids keep their order.                 *)
C8_ToggleTwiceRestoresMembership ==
    ToggledTwice =>
        LET before == pair.favorites
            wasMember == pair.id \in Members(before)
            wasLast == before # << >> /\ before[Len(before)] = pair.id
        IN  /\ Members(favorites) = Members(before)
            /\ Members(StoredList) = Members(before)
            /\ (~wasMember \/ wasLast) => storage = pair.storage
            /\ wasMember =>
                   StoredList = Append(SelectSeq(before, LAMBDA y : y # pair.id), pair.id)

C8_Witness ==
    /\ ToggledTwice
    /\ Len(pair.favorites) >= 2
    /\ pair.id = pair.favorites[1]
    /\ storage # pair.storage

(* C9: in a session in which nothing is toggled, the storage holds exactly *)
(* the ids it held when the session started, at every point of the session. *)
C9_StorageKeepsFavorites ==
    (mounted /\ ~toggled) =>
        Members(StoredList) = Members(IF stored0 = Null THEN << >> ELSE The(stored0))

(* C10: once every queued toggle has been processed the stored list is the *)
(* serialization of the in-memory set, and the storage is read once per    *)
(* session, at startup.                                                    *)
C10_MutationsPersisted ==
    mounted =>
        /\ reads = 1
        /\ updates = << >> => (storage # Null /\ The(storage) = favorites)

C10_Witness ==
    /\ Quiescent
    /\ toggled
    /\ Len(favorites) >= 2
    /\ stored0 # Null

----------------------------------------------------------------------------
(* Properties of the Index page rendering, checked under SpecBars *)

(* C11: in every state where the controller has error set and loading false, *)
(* the page renders the non-empty (mock) record list together with the error *)
(* message and the retry action.                                             *)
C11_ErrorStillShowsBars ==
    (~startPageShown /\ error # Null /\ ~loading) =>
        /\ errorAlertShown
        /\ retryShown
        /\ barsShown # << >>
        /\ barsShown = mockBars

----------------------------------------------------------------------------
(* Properties of the start page, checked under SpecStart *)

StartFailureSentence(code) ==
    CASE code = 1 -> "Location permission denied. Please search for a city instead."
      [] code = 2 -> "Location information unavailable. Please try searching for a city."
      [] code = 3 -> "Location request timed out. Please try again or search for a city."

C14_SearchFailureSelectsNothing ==
    (startEvent.op \in {"searchFailed", "searchEmpty"}) =>
        /\ selectedLocation = Null
        /\ startError # Null
        /\ searchResults = << >>
        /\ ~isSearching

----------------------------------------------------------------------------
(* Properties of the geolocation hook, checked under SpecGeo *)

(* The sentence the hook reports for each kind of geolocation failure *)
HookFailureSentence(code) ==
    CASE code = 1 -> "Location permission denied. Using Bergen city center."
      [] code = 2 -> "Location information unavailable. Using Bergen city center."
      [] code = 3 -> "Location request timed out. Using Bergen city center."

GeoSettled ==
    /\ geoCoordinates # Null
    /\ geoOutcome # Null =>
          IF The(geoOutcome).code = 0
          THEN /\ geoCoordinates = Some(The(geoOutcome).position)
               /\ geoError = Null
          ELSE /\ geoCoordinates = Some([latitude |-> 603913, longitude |-> 53221])
               /\ geoError = Some(HookFailureSentence(The(geoOutcome).code))
    /\ geoOutcome = Null =>
          /\ ~geoSupported
          /\ geoCoordinates = Some([latitude |-> 603913, longitude |-> 53221])
          /\ geoError = Some("Geolocation is not supported by your browser")

(* C13: the hook eventually has loading false, and whenever loading is false  *)
(* the coordinate is non-null: the device position with error null after a    *)
(* success, the fallback (60.3913, 5.3221) with the sentence for the kind of  *)
(* failure otherwise; the sentences of different kinds differ.                *)
C13_HookEndsWithCoordinate ==
    /\ [](~geoLoading => GeoSettled)
    /\ <>(~geoLoading)
    /\ [](\A c1, c2 \in GeoErrorCodes :
             c1 # c2 => HookFailureSentence(c1) # HookFailureSentence(c2))

C13_Witness ==
    /\ ~geoLoading
    /\ geoOutcome # Null
    /\ The(geoOutcome).code = 3
    /\ geoCoordinates = Some([latitude |-> 603913, longitude |-> 53221])

----------------------------------------------------------------------------
(* Properties of the adapters, checked under SpecAdapter *)

KeyOf(service) == IF service = "yelp" THEN apiKey ELSE fsqKey
Unconfigured(k) == k \in {"", "your_api_key_here"}

DigitValue(c) == CHOOSE d \in 0..9 : SubSeq("0123456789", d + 1, d + 1) = c

RECURSIVE ParseNat(_)
ParseNat(s) ==
    IF Len(s) = 0 THEN 0
    ELSE 10 * ParseNat(SubSeq(s, 1, Len(s) - 1)) + DigitValue(SubSeq(s, Len(s), Len(s)))

ParseInt(s) ==
    IF Len(s) > 0 /\ SubSeq(s, 1, 1) = "-" THEN 0 - ParseNat(SubSeq(s, 2, Len(s))) ELSE ParseNat(s)

(* the response is a non-success status, or a success whose body is not the *)
(* document the operation expects                                          *)
UpstreamFailure(resp) ==
    \/ ~resp.ok /\ resp.status # ""
    \/ resp.ok /\ resp.body \in {"missing", "notjson"}

(* C15: every adapter operation (search, fetch-one, reviews) that received a *)
(* non-success status or a malformed body ended by raising an error that     *)
(* carries the status and the body; none returned null or a list.            *)
C15_UpstreamFailuresAreRaised ==
    (lastCall # Null /\ The(lastCall).response # Null
       /\ UpstreamFailure(The(The(lastCall).response))) =>
        /\ The(lastCall).result.kind = "threw"
        /\ Includes(The(lastCall).result.message, The(The(lastCall).response).status)
        /\ ~The(The(lastCall).response).ok =>
              Includes(The(lastCall).result.message, The(The(lastCall).response).body)

(* C16: with the credential of a service absent or equal to the placeholder, *)
(* no request to that service is ever sent, and every call of one of its     *)
(* operations ends with a configuration error without a response.            *)
C16_NoRequestWithoutCredential ==
    /\ \A i \in 1..Len(requests) : ~Unconfigured(KeyOf(requests[i].service))
    /\ (pending # Null) => ~Unconfigured(KeyOf(The(pending).service))
    /\ (lastCall # Null /\ Unconfigured(KeyOf(The(lastCall).call.service))) =>
          /\ The(lastCall).response = Null
          /\ The(lastCall).result.kind = "threw"
          /\ Includes(The(lastCall).result.message, "API key is not configured")

C16_Witness ==
    /\ lastCall # Null
    /\ The(lastCall).call.service = "yelp"
    /\ The(lastCall).call.op = "reviews"
    /\ apiKey = "your_api_key_here"
    /\ The(lastCall).result.kind = "threw"
    /\ Len(requests) = MaxRequests

(* C17: every search request sent carries a radius within 0..40000 and a *)
(* limit within 0..50, whatever radius and limit the caller asked for.   *)
C17_RequestWithinRange ==
    \A i \in 1..Len(requests) :
        requests[i].op = "search" =>
            /\ ParseInt(requests[i].radius) \in 0..40000
            /\ ParseInt(requests[i].limit) \in 0..50

----------------------------------------------------------------------------
(* Properties of the conversion, checked under SpecConvert *)

Lowered(label) == toLowerCase(label)

(* the label matches one of the substring rules of the service *)
MatchesYelp(label) ==
    \/ \E k \in {"cocktail", "wine", "sports", "nightclub", "brew", "beer", "pub"} :
           Includes(Lowered(label), k)
    \/ Lowered(label) = "nightlife"
MatchesFoursquare(label) ==
    \E k \in {"cocktail", "wine", "sports", "nightclub", "night club", "brewery", "craft", "beer"} :
        Includes(Lowered(label), k)

(* C18: for every category list, the empty one included, the derived type is *)
(* one of Cocktail, Pub, Sports, Wine, Craft-beer, Nightclub, and it is Pub   *)
(* when no label of the list matches a substring rule.                        *)
C18_TypeIsOneOfSix ==
    bar # Null =>
        /\ The(bar).type \in {"Cocktail", "Pub", "Sports", "Wine", "Craft-beer", "Nightclub"}
        /\ (The(bar).service = "yelp"
              /\ \A i \in 1..Len(business.categories) : ~MatchesYelp(business.categories[i]))
             => The(bar).type = "Pub"
        /\ (The(bar).service = "foursquare"
              /\ \A i \in 1..Len(business.categories) : ~MatchesFoursquare(business.categories[i]))
             => The(bar).type = "Pub"

C18_Witness ==
    /\ bar # Null
    /\ The(bar).service = "yelp"
    /\ business.categories = <<"lounges">>
    /\ The(bar).type = "Pub"

(* the type of the highest-priority rule that some label of the list matches *)
PriorityType(labels) ==
    LET has(t) == \E i \in 1..Len(labels) : Includes(Lowered(labels[i]), t)
    IN  IF has("cocktail") THEN "Cocktail"
        ELSE IF has("wine") THEN "Wine"
        ELSE IF has("sports") THEN "Sports"
        ELSE IF has("nightclub") \/ (\E i \in 1..Len(labels) : Lowered(labels[i]) = "nightlife")
             THEN "Nightclub"
        ELSE IF has("brew") \/ has("beer") THEN "Craft-beer"
        ELSE "Pub"

(* C19: the derived type is that of the highest-priority rule (cocktail, wine, *)
(* sports, nightclub/nightlife, brew/beer, pub) matched by any label of the    *)
(* list, whatever the position of the labels.                                  *)
C19_PriorityOverWholeList ==
    (bar # Null /\ The(bar).service = "yelp") =>
        The(bar).type = PriorityType(business.categories)

(* C19 (amended): the derived type is decided by the first label of the list *)
(* that matches any rule; the priority order of the rules applies to that    *)
(* label alone, and later labels are not looked at.                          *)
C19_FirstMatchingLabelDecides ==
    (bar # Null /\ The(bar).service = "yelp") =>
        LET matching == {i \in 1..Len(business.categories) : MatchesYelp(business.categories[i])}
        IN  IF matching = {} THEN The(bar).type = "Pub"
            ELSE LET first == CHOOSE i \in matching : \A j \in matching : i <= j
                 IN  The(bar).type = PriorityType(<<business.categories[first]>>)

C19_Witness ==
    /\ bar # Null
    /\ The(bar).service = "yelp"
    /\ business.categories = <<"pubs", "cocktailbars">>
    /\ The(bar).type = "Pub"

(* C20: every Place Record has a non-empty image and an integer priceLevel *)
(* within 1..4: 2 for an absent price, n for a price of n symbols.          *)
C20_ImageAndPriceLevel ==
    bar # Null =>
        /\ The(bar).image # ""
        /\ The(bar).priceLevel \in 1..4
        /\ (business.price = Null) => The(bar).priceLevel = 2
        /\ (The(bar).service = "yelp" /\ business.price # Null /\ The(business.price) # "")
             => The(bar).priceLevel = Len(The(business.price))

(* the stock image of a category, and the generic bar image *)
StockImage(type) ==
    CASE type = "Cocktail" ->
             "https://images.unsplash.com/photo-1514362545857-3bc16c4c7d1b?w=800&h=600&fit=crop"
      [] type = "Wine" ->
             "https://images.unsplash.com/photo-1510812431401-41d2bd2722f3?w=800&h=600&fit=crop"
      [] type = "Craft-beer" ->
             "https://images.unsplash.com/photo-1608270586620-248524c67de9?w=800&h=600&fit=crop"
      [] type = "Pub" ->
             "https://images.unsplash.com/photo-1543007631-283050bb3e8c?w=800&h=600&fit=crop"
      [] type = "Nightclub" ->
             "https://images.unsplash.com/photo-1470337458703-46ad1756a187?w=800&h=600&fit=crop"
      [] OTHER ->
             "https://images.unsplash.com/photo-1566417713940-fe7c737a9ef2?w=800&h=600&fit=crop"

NoPhoto == business.image_url = Null \/ Trim(The(business.image_url)) = ""

(* the label matches one of the image rules *)
MatchesImageRule(label) ==
    \E k \in {"cocktail", "wine", "brew", "beer", "pub", "nightclub", "nightlife"} :
        Includes(Lowered(label), k)

(* C21: without an upstream photo, a record whose derived category is Cocktail, *)
(* Wine, Craft-beer, Nightclub, or Pub by a matching label, has the stock image *)
(* of that category, and only a record none of whose labels matches an image    *)
(* rule has the generic bar image.                                              *)
C21_FallbackImageFollowsCategory ==
    (bar # Null /\ The(bar).service = "yelp" /\ NoPhoto) =>
        /\ (The(bar).type \in {"Cocktail", "Wine", "Craft-beer", "Nightclub"}
              \/ (The(bar).type = "Pub"
                   /\ \E i \in 1..Len(business.categories) : MatchesYelp(business.categories[i])))
             => The(bar).image = StockImage(The(bar).type)
        /\ (The(bar).image = StockImage("none"))
             => \A i \in 1..Len(business.categories) : ~MatchesImageRule(business.categories[i])

----------------------------------------------------------------------------
(* Properties of the filter and sort pipeline, checked under SpecPipeline *)

Output == The(filteredBars)

(* the record satisfies every enabled predicate *)
Satisfies(b) ==
    /\ (selectedType # Null) => b.type = The(selectedType)
    /\ showFavoritesOnly => b.id \in Members(favorites)
    /\ (minRating > 0) => b.rating >= minRating
    /\ openOnly => b.isOpenNow = Some(TRUE)

(* C22: the output holds exactly the records of the input that satisfy all *)
(* enabled predicates (category, favorites, rating >= minRating, open now), *)
(* each of them once.                                                       *)
C22_FilterKeepsExactlyMatching ==
    filteredBars # Null =>
        /\ Members(Output) = {b \in Members(bars) : Satisfies(b)}
        /\ Len(Output) = Cardinality(Members(Output))

C22_Witness ==
    /\ filteredBars # Null
    /\ selectedType # Null /\ showFavoritesOnly /\ minRating = 5 /\ openOnly
    /\ Len(bars) = 2
    /\ Len(Output) = 1

(* C23: with sortBy 'distance' the records of the output that have a distance *)
(* appear in non-decreasing order of distance, also when records without a    *)
(* distance are among them.                                                   *)
C23_DistanceOrder ==
    (filteredBars # Null /\ sortBy = "distance") =>
        \A i, j \in 1..Len(Output) :
            (i < j /\ Output[i].distance # Null /\ Output[j].distance # Null)
                => The(Output[i].distance) <= The(Output[j].distance)

Level(b) == IF b.isOpenNow = Null THEN 2 ELSE IF The(b.isOpenNow) THEN 0 ELSE 1

(* the default order requires a before b *)
MustPrecede(a, b) ==
    \/ Level(a) < Level(b)
    \/ /\ Level(a) = Level(b)
       /\ IF a.distance # Null /\ b.distance # Null
          THEN The(a.distance) < The(b.distance)
          ELSE a.rating > b.rating

(* C24: with sortBy 'default' records with an open/closed flag come before *)
(* records without, open before closed, and records equal on both levels   *)
(* are in ascending distance when both have one, else in descending rating. *)
C24_DefaultOrder ==
    (filteredBars # Null /\ sortBy = "default") =>
        \A i, j \in 1..Len(Output) : i < j => ~MustPrecede(Output[j], Output[i])

----------------------------------------------------------------------------
(* Properties of the loading flag, checked under SpecBars *)

(* C26: from the first search on, loading is true exactly while a places *)
(* search is outstanding: true whenever at least one fetch is in flight, *)
(* also when an overlapping earlier fetch has completed, and false once  *)
(* none is in flight.                                                    *)
C26_LoadingWhileOutstanding ==
    (calls # << >>) => (loading <=> inflight # {})

----------------------------------------------------------------------------
(* Properties of the manual override, checked under SpecDrag *)

(* the search that the most recent drag started *)
IsLatestDrag(k) == The(calls[k].coordinates).ref = nextRef - 1

(* C27: the most recent drag wins: once all reverse-geocoding lookups have *)
(* completed the selected coordinate is the one of the latest drag, and    *)
(* searches are started in the order of the drags, none for an earlier     *)
(* drag after a later one.                                                 *)
C27_LatestDragWins ==
    /\ (revPending = {} /\ selectedLocation # Null) =>
          \A k \in 1..Len(calls) :
              IsLatestDrag(k) => The(coordinates).pos = The(calls[k].coordinates).pos
    /\ \A k, l \in 1..Len(calls) :
          (k < l /\ The(calls[k].coordinates).pos # The(calls[l].coordinates).pos)
              => The(calls[k].coordinates).ref <= The(calls[l].coordinates).ref

----------------------------------------------------------------------------
(* Properties of the selection made on the start page, checked under SpecStart *)

(* the selected location is a geocoding search result the user picked *)
SearchResultSelected ==
    selectedLocation # Null /\ The(selectedLocation).name = "display_name"

(* C28: a selected search result is replaced by a user action only (here: *)
(* going back to the start page); the success callback of an earlier      *)
(* 'Share My Location' request does not replace it.                       *)
C28_SelectionKeptUntilUserActs ==
    [][SearchResultSelected => selectedLocation' \in {selectedLocation, Null}]_vars

----------------------------------------------------------------------------
(* Properties of the popular-city buttons, checked under SpecCity *)

(* C29: a click on a popular-city button issues a geocoding search for that *)
(* city: whatever the search field held before, the request sent when the   *)
(* click's timeout expires carries the clicked city name.                   *)
C29_CityClickSearchesCity ==
    [][\A t \in timers :
          t \notin timers' =>
              /\ Len(searchLog') = Len(searchLog) + 1
              /\ searchLog'[Len(searchLog')] = t.city]_vars

====
